---- MODULE Spec2Model ----
(***************************************************************************)
(* XFA form tooling of immigration-ai.                                     *)
(*                                                                         *)
(*   fill_xfa_pdf    scripts/fill-xfa-pdf.py and services/pdf-service:     *)
(*                   merges a flat map  path -> value  into the datasets   *)
(*                   XML tree of a PDF container.                          *)
(*   extract_fields  scripts/extract-xfa-fields.py: walks the template     *)
(*                   XML tree and lists its fields.                        *)
(*                                                                         *)
(* Strings the code inspects character by character (field paths, element  *)
(* names) are sequences of one-character strings.  An XML tree is a heap:  *)
(* a sequence of nodes, a node's identity is its index, its children are   *)
(* an ordered sequence of indices (ElementTree keeps a list of children).  *)
(***************************************************************************)
EXTENDS Integers, Sequences, FiniteSets, TLC

VARIABLES
    template,       \* the PDF container on disk (template_path), never written
    field_data,     \* the update map, as the sequence of its items()
    service,        \* TRUE: services/pdf-service/main.py, FALSE: the script
    flatten,        \* the service's flatten argument
    pc,             \* "call" | "loop" | "returned"
    pdf,            \* the container opened by pikepdf.open, in memory
    datasets_idx,   \* index of the datasets stream in /XFA (0: none)
    datasets_root,  \* the parsed datasets tree
    data_node,      \* the xfa:data element (0: none)
    idx,            \* number of items of field_data the loop has consumed
    filled,
    errors,
    result,         \* what the call returned
    output,         \* what the call saved / returned as bytes
    namespace_map,  \* ElementTree's process-wide prefix registry
    calls,          \* outcomes of the earlier calls of this process
    tmpl,           \* the template XML tree handed to extract_fields
    fields,         \* the list extract_fields returned
    extracted       \* extract_fields has returned

fillVars == <<template, field_data, service, flatten, pc, pdf, datasets_idx,
              datasets_root, data_node, idx, filled, errors, result, output,
              namespace_map, calls>>
vars == <<template, field_data, service, flatten, pc, pdf, datasets_idx,
          datasets_root, data_node, idx, filled, errors, result, output,
          namespace_map, calls, tmpl, fields, extracted>>

-----------------------------------------------------------------------------
(* Bounds *)

MaxEntries == 2
MaxCalls == 2
MaxWalkNodes == 4
MaxRadioNodes == 7
MaxWidgetNodes == 5
MaxCaptionNodes == 7

-----------------------------------------------------------------------------
(* Generic helpers *)

None == [k |-> "none"]

\* the concatenation of a sequence of sequences
RECURSIVE Flatten(_)
Flatten(ss) == IF ss = <<>> THEN <<>> ELSE Head(ss) \o Flatten(Tail(ss))

-----------------------------------------------------------------------------
(* Characters and the safe-name pattern *)

NL == "\n"
Letters == {"a", "b", "c", "d", "t"}
Digits == {"1"}
WordChars == Letters \cup Digits \cup {"_"}

\* a letter, then letters, digits and underscores, and nothing else
StrictSafePart(p) ==
    /\ Len(p) >= 1
    /\ p[1] \in Letters
    /\ \A i \in 2..Len(p) : p[i] \in WordChars

\* SAFE_FIELD_PART.match(p): Python's "$" (no re.MULTILINE) matches at the
\* end of the string and also just before a newline that ends the string.
SAFE_FIELD_PART(p) ==
    LET body == IF Len(p) >= 1 /\ p[Len(p)] = NL
                THEN SubSeq(p, 1, Len(p) - 1) ELSE p
    IN  /\ Len(body) >= 1
        /\ body[1] \in Letters
        /\ \A i \in 2..Len(body) : body[i] \in WordChars

\* field_path.split("."): always at least one part, empty parts are kept
RECURSIVE SplitFrom(_, _, _)
SplitFrom(s, i, cur) ==
    IF i > Len(s) THEN <<cur>>
    ELSE IF s[i] = "." THEN <<cur>> \o SplitFrom(s, i + 1, <<>>)
    ELSE SplitFrom(s, i + 1, Append(cur, s[i]))

Split(s) == SplitFrom(s, 1, <<>>)

AllSafe(parts) == \A i \in DOMAIN parts : SAFE_FIELD_PART(parts[i])

-----------------------------------------------------------------------------
(* Values of the update map *)

StrVal(s) == [k |-> "str", s |-> s]
IntVal(n) == [k |-> "int", n |-> n]

\* str(value)
PyStr(v) == IF v.k = "str" THEN v.s ELSE IF v.k = "int" THEN ToString(v.n) ELSE "None"

\* A plausible slip: only None is skipped.
IsEmptyValue_NoneOnly(v) == v.k = "none"

\* value is None or value == ""
IsEmptyValue(v) == v.k = "none" \/ (v.k = "str" /\ v.s = "")

-----------------------------------------------------------------------------
(* XML trees (xml.etree.ElementTree) *)

XFA_DATA_NS == "http://www.xfa.org/schema/xfa-data/1.0/"

Tag(ns, local) == [ns |-> ns, local |-> local]
Plain(local) == Tag("", local)

Node(tag, text, kids) == [tag |-> tag, text |-> text, kids |-> kids]

\* the first of kids[i], kids[i+1], ... whose tag is tag, 0 when there is none
RECURSIVE FirstTagged(_, _, _, _)
FirstTagged(nodes, kids, tag, i) ==
    IF i > Len(kids) THEN 0
    ELSE IF nodes[kids[i]].tag = tag THEN kids[i]
    ELSE FirstTagged(nodes, kids, tag, i + 1)

\* current.find(part) for a part without "/", "[" ... : the first child whose
\* tag is part.  ElementPath tokenises the path and drops white space as a
\* separator, so a part that ends in a newline yields a second, empty step
\* and selects nothing.
Find(nodes, cur, part) ==
    IF \E i \in DOMAIN part : part[i] \in {NL, " "} THEN 0
    ELSE FirstTagged(nodes, nodes[cur].kids, Plain(part), 1)

\* A plausible slip: the new element is inserted before its siblings.
SubElementFirst(nodes, cur, part) ==
    LET new == Len(nodes) + 1
    IN  [Append(nodes, Node(Plain(part), "", <<>>))
            EXCEPT ![cur].kids = <<new>> \o @]

\* ET.SubElement(current, part): a new element, appended to current
SubElement(nodes, cur, part) ==
    LET new == Len(nodes) + 1
    IN  [Append(nodes, Node(Plain(part), "", <<>>))
            EXCEPT ![cur].kids = Append(@, new)]

\* the loop "for part in parts": find or create, then descend.
\* Yields the tree and the element reached.
RECURSIVE Descend(_, _, _, _)
Descend(nodes, cur, parts, i) ==
    IF i > Len(parts) THEN [nodes |-> nodes, at |-> cur]
    ELSE LET child == Find(nodes, cur, parts[i])
         IN  IF child = 0
             THEN Descend(SubElement(nodes, cur, parts[i]), Len(nodes) + 1, parts, i + 1)
             ELSE Descend(nodes, child, parts, i + 1)

\* current.text = str(value) after the descent
SetField(nodes, data, parts, value) ==
    LET d == Descend(nodes, data, parts, 1)
    IN  [d.nodes EXCEPT ![d.at].text = PyStr(value)]

\* datasets_root.find("xfa:data", ns): first child of the root in the data namespace
FindData(nodes) ==
    FirstTagged(nodes, nodes[1].kids, Tag(XFA_DATA_NS, <<"d", "a", "t", "a">>), 1)

-----------------------------------------------------------------------------
(* XML text: a sequence of tokens *)

Open(ns, prefix, local) == [t |-> "open", ns |-> ns, prefix |-> prefix, local |-> local, s |-> ""]
Text(s) == [t |-> "text", ns |-> "", prefix |-> "", local |-> <<>>, s |-> s]
Close == [t |-> "close", ns |-> "", prefix |-> "", local |-> <<>>, s |-> ""]

\* the prefix ElementTree writes for a namespace: the registered one,
\* or a generated ns0
PrefixOf(map, ns) ==
    IF ns = "" THEN ""
    ELSE IF \E p \in DOMAIN map : map[p] = ns
         THEN CHOOSE p \in DOMAIN map : map[p] = ns
         ELSE "ns0"

RECURSIVE SerializeNode(_, _, _)
RECURSIVE SerializeKids(_, _, _, _)
SerializeNode(nodes, id, map) ==
    <<Open(nodes[id].tag.ns, PrefixOf(map, nodes[id].tag.ns), nodes[id].tag.local)>>
    \o (IF nodes[id].text = "" THEN <<>> ELSE <<Text(nodes[id].text)>>)
    \o SerializeKids(nodes, nodes[id].kids, 1, map)
    \o <<Close>>
SerializeKids(nodes, kids, i, map) ==
    IF i > Len(kids) THEN <<>>
    ELSE SerializeNode(nodes, kids[i], map) \o SerializeKids(nodes, kids, i + 1, map)

\* ET.tostring(datasets_root, encoding='unicode', xml_declaration=False)
ToString_(nodes, map) == SerializeNode(nodes, 1, map)

\* ET.fromstring: elements are numbered in document order; the prefix of
\* a name is resolved to its namespace and forgotten.
RECURSIVE ParseFrom(_, _, _, _)
ParseFrom(toks, i, nodes, stack) ==
    IF i > Len(toks) THEN nodes
    ELSE LET tk == toks[i] IN
         IF tk.t = "open" THEN
            LET new == Len(nodes) + 1
                added == Append(nodes, Node(Tag(tk.ns, tk.local), "", <<>>))
                linked == IF stack = <<>> THEN added
                          ELSE [added EXCEPT ![Head(stack)].kids = Append(@, new)]
            IN  ParseFrom(toks, i + 1, linked, <<new>> \o stack)
         ELSE IF tk.t = "text" THEN
            ParseFrom(toks, i + 1, [nodes EXCEPT ![Head(stack)].text = tk.s], stack)
         ELSE ParseFrom(toks, i + 1, nodes, Tail(stack))

FromString(toks) == ParseFrom(toks, 1, <<>>, <<>>)

-----------------------------------------------------------------------------
(* The PDF container (pikepdf) *)

\* /XFA is an array  name, stream, name, stream, ...  (1-based here)
Pdf(acroForm, hasXfa, xfa, needAppearances) ==
    [acroForm |-> acroForm, hasXfa |-> hasXfa, xfa |-> xfa,
     needAppearances |-> needAppearances, readOnly |-> FALSE, metadata |-> <<>>]

\* for i in range(0, len(xfa), 2): if str(xfa[i]) == "datasets": i + 1; break
RECURSIVE DatasetsIdxFrom(_, _)
DatasetsIdxFrom(xfa, i) ==
    IF i > Len(xfa) THEN 0
    ELSE IF xfa[i] = "datasets" THEN i + 1
    ELSE DatasetsIdxFrom(xfa, i + 2)

DatasetsIdx(xfa) == DatasetsIdxFrom(xfa, 1)

\* ET.register_namespace(prefix, uri): any earlier binding of the prefix or
\* of the uri is dropped, then the pair is recorded, process-wide
RegisterNamespace(map, prefix, uri) ==
    LET keep == {p \in DOMAIN map : p # prefix /\ map[p] # uri}
    IN  [p \in keep \cup {prefix} |-> IF p = prefix THEN uri ELSE map[p]]

\* A plausible slip: the failure reports nothing of the request.
FailStatsNoTotal(msg) == [filled |-> 0, total |-> 0, errors |-> <<<<msg>>>>]

\* return {"filled": 0, "total": len(field_data), "errors": [msg]}
FailStats(msg) == [filled |-> 0, total |-> Len(field_data), errors |-> <<<<msg>>>>]

\* A plausible slip: the error list outlives the call (a module-level list).
FreshErrorsShared == errors

\* errors = []
FreshErrors == <<>>

\* f"{field_path}: invalid field path characters"
PathError(path) == path \o <<": invalid field path characters">>

-----------------------------------------------------------------------------
(* Inputs *)

DATA == <<"d", "a", "t", "a">>
DATASETS == <<"d", "a", "t", "a", "s", "e", "t", "s">>

Registered == RegisterNamespace(<<>>, "xfa", XFA_DATA_NS)

\* <xfa:datasets><xfa:data/></xfa:datasets>
XmlEmpty ==
    ToString_(<<Node(Tag(XFA_DATA_NS, DATASETS), "", <<2>>),
                Node(Tag(XFA_DATA_NS, DATA), "", <<>>)>>, Registered)

\* <xfa:datasets><data/><xfa:data><a><b>old</b><b>dup</b></a></xfa:data></xfa:datasets>
XmlFilled ==
    ToString_(<<Node(Tag(XFA_DATA_NS, DATASETS), "", <<2, 3>>),
                Node(Plain(DATA), "", <<>>),
                Node(Tag(XFA_DATA_NS, DATA), "", <<4>>),
                Node(Plain(<<"a">>), "", <<5, 6>>),
                Node(Plain(<<"b">>), "old", <<>>),
                Node(Plain(<<"b">>), "dup", <<>>)>>, Registered)

\* <xfa:datasets><data><a/></data></xfa:datasets>: no element in the data namespace
XmlNoData ==
    ToString_(<<Node(Tag(XFA_DATA_NS, DATASETS), "", <<2>>),
                Node(Plain(DATA), "", <<3>>),
                Node(Plain(<<"a">>), "", <<>>)>>, Registered)

XmlTemplate == <<Open("", "", <<"t">>), Close>>

Templates ==
    { Pdf(FALSE, FALSE, <<>>, "absent"),
      Pdf(TRUE, FALSE, <<>>, "absent"),
      Pdf(TRUE, TRUE, <<"template", XmlTemplate>>, "absent"),
      Pdf(TRUE, TRUE, <<"template", XmlTemplate, "datasets", XmlNoData>>, "absent"),
      Pdf(TRUE, TRUE, <<"datasets", XmlEmpty>>, "absent"),
      Pdf(TRUE, TRUE, <<"template", XmlTemplate, "datasets", XmlFilled>>, "false") }

Paths ==
    { <<"a", ".", "b">>, <<"a">>, <<"b", ".", "c">>,
      <<"b", ".", "1">>, <<"a", "/", "b">>, <<"a", " ", "b">>, <<"a", ".">>,
      <<"a", NL>> }

\* json.load gives any JSON value (null, strings, numbers ...); the service's
\* FillRequest admits only strings, the empty one among them
ScriptValues == {None, StrVal("J"), IntVal(7)}
ServiceValues == {StrVal(""), StrVal("J")}

Entry(path, value) == [path |-> path, value |-> value]

\* the items() of a dict: keys are distinct, the order is the insertion order
Maps(values) ==
    UNION { { m \in [1..n -> {Entry(p, v) : p \in Paths, v \in values}] :
                \A i, j \in 1..n : i # j => m[i].path # m[j].path }
            : n \in 0..MaxEntries }

InitExtractIdle ==
    /\ tmpl = <<>>
    /\ fields = <<>>
    /\ extracted = FALSE

Init ==
    /\ template \in Templates
    /\ service \in BOOLEAN
    /\ flatten \in (IF service THEN BOOLEAN ELSE {FALSE})
    /\ field_data \in Maps(IF service THEN ServiceValues ELSE ScriptValues)
    /\ pc = "call"
    /\ pdf = template
    /\ datasets_idx = 0
    /\ datasets_root = <<>>
    /\ data_node = 0
    /\ idx = 0
    /\ filled = 0
    /\ errors = <<>>
    /\ result = None
    /\ output = <<>>
    /\ namespace_map = <<>>
    /\ calls = <<>>
    /\ InitExtractIdle

-----------------------------------------------------------------------------
(* fill_xfa_pdf *)

Fail(msg) ==
    /\ result' = FailStats(msg)
    /\ output' = <<>>
    /\ pc' = "returned"
    /\ pdf' = template
    /\ UNCHANGED <<template, field_data, service, flatten, datasets_root, data_node,
                   idx, filled, errors, calls, tmpl, fields, extracted>>

\* if "/AcroForm" not in root: return ...
NoAcroForm ==
    /\ pc = "call"
    /\ ~template.acroForm
    /\ Fail("No AcroForm in PDF")
    /\ UNCHANGED <<datasets_idx, namespace_map>>

\* if "/XFA" not in acroform: return ...
NoXFA ==
    /\ pc = "call"
    /\ template.acroForm
    /\ ~template.hasXfa
    /\ Fail("No XFA in AcroForm")
    /\ UNCHANGED <<datasets_idx, namespace_map>>

\* if datasets_idx is None: return ...
NoDatasets ==
    /\ pc = "call"
    /\ template.acroForm
    /\ template.hasXfa
    /\ DatasetsIdx(template.xfa) = 0
    /\ Fail("No datasets in XFA")
    /\ UNCHANGED <<datasets_idx, namespace_map>>

\* the stream is read and parsed, the prefix registered; if data_node is None: return ...
NoDataNode ==
    /\ pc = "call"
    /\ template.acroForm
    /\ template.hasXfa
    /\ DatasetsIdx(template.xfa) # 0
    /\ FindData(FromString(template.xfa[DatasetsIdx(template.xfa)])) = 0
    /\ namespace_map' = RegisterNamespace(namespace_map, "xfa", XFA_DATA_NS)
    /\ datasets_idx' = DatasetsIdx(template.xfa)
    /\ Fail("No data node in datasets")

\* every structure is there: filled = 0; errors = []; enter the loop
Parsed ==
    /\ pc = "call"
    /\ template.acroForm
    /\ template.hasXfa
    /\ DatasetsIdx(template.xfa) # 0
    /\ LET root == FromString(template.xfa[DatasetsIdx(template.xfa)])
       IN  /\ FindData(root) # 0
           /\ datasets_root' = root
           /\ data_node' = FindData(root)
    /\ namespace_map' = RegisterNamespace(namespace_map, "xfa", XFA_DATA_NS)
    /\ datasets_idx' = DatasetsIdx(template.xfa)
    /\ pdf' = template
    /\ idx' = 0
    /\ filled' = 0
    /\ errors' = FreshErrors
    /\ pc' = "loop"
    /\ UNCHANGED <<template, field_data, service, flatten, result, output, calls,
                   tmpl, fields, extracted>>

\* the item the loop is about to take
Current == field_data[idx + 1]

Advance ==
    /\ idx' = idx + 1
    /\ UNCHANGED <<template, field_data, service, flatten, pc, pdf, datasets_idx,
                   data_node, result, output, namespace_map, calls, tmpl, fields, extracted>>

\* if value is None or value == "": continue
SkipEmpty ==
    /\ pc = "loop"
    /\ idx < Len(field_data)
    /\ IsEmptyValue(Current.value)
    /\ Advance
    /\ UNCHANGED <<datasets_root, filled, errors>>

\* if not all(SAFE_FIELD_PART.match(p) for p in parts): errors.append(...); continue
RejectPath ==
    /\ pc = "loop"
    /\ idx < Len(field_data)
    /\ ~IsEmptyValue(Current.value)
    /\ ~AllSafe(Split(Current.path))
    /\ errors' = Append(errors, PathError(Current.path))
    /\ Advance
    /\ UNCHANGED <<datasets_root, filled>>

\* navigate / create the path, current.text = str(value), filled += 1
FillField ==
    /\ pc = "loop"
    /\ idx < Len(field_data)
    /\ ~IsEmptyValue(Current.value)
    /\ AllSafe(Split(Current.path))
    /\ datasets_root' = SetField(datasets_root, data_node, Split(Current.path), Current.value)
    /\ filled' = filled + 1
    /\ Advance
    /\ UNCHANGED errors

\* the document as it is saved: the new stream in place of the old, the
\* NeedAppearances flag set unless present; the service also marks the
\* fields read-only when asked to flatten and stamps the metadata
Saved ==
    [pdf EXCEPT
        !.xfa[datasets_idx] = ToString_(datasets_root, namespace_map),
        !.needAppearances = IF @ = "absent" THEN "true" ELSE @,
        !.readOnly = service /\ flatten,
        !.metadata = IF service THEN <<"USCIS Form", Len(calls)>> ELSE <<>>]

\* serialize, write back, save, return the stats
Finish ==
    /\ pc = "loop"
    /\ idx = Len(field_data)
    /\ pdf' = Saved
    /\ output' = <<Saved>>
    /\ result' = [filled |-> filled, total |-> Len(field_data), errors |-> errors]
    /\ pc' = "returned"
    /\ UNCHANGED <<template, field_data, service, flatten, datasets_idx, datasets_root,
                   data_node, idx, filled, errors, namespace_map, calls, tmpl, fields, extracted>>

\* the same process is asked to fill the same template with the same map again
CallAgain ==
    /\ pc = "returned"
    /\ Len(calls) + 1 < MaxCalls
    /\ calls' = Append(calls, [result |-> result, output |-> output])
    /\ pc' = "call"
    /\ pdf' = template
    /\ result' = None
    /\ output' = <<>>
    /\ UNCHANGED <<template, field_data, service, flatten, datasets_idx, datasets_root,
                   data_node, idx, filled, errors, namespace_map, tmpl, fields, extracted>>

Next ==
    \/ NoAcroForm
    \/ NoXFA
    \/ NoDatasets
    \/ NoDataNode
    \/ Parsed
    \/ SkipEmpty
    \/ RejectPath
    \/ FillField
    \/ Finish
    \/ CallAgain

Spec == Init /\ [][Next]_vars

-----------------------------------------------------------------------------
(* extract_fields: the template tree *)

\* ns = {"t": "http://www.xfa.org/schema/xfa-template/3.3/"}
T_NS == "http://www.xfa.org/schema/xfa-template/3.3/"
\* another version of the template schema
OLD_NS == "http://www.xfa.org/schema/xfa-template/3.0/"

T(local) == Tag(T_NS, local)

\* An element of the template: its tag, its name attribute (a sequence of
\* chunks, empty when the attribute is absent or ""), its text (a sequence
\* of characters, empty when there is none) and its children.
Elem(tag, name, text, kids) == [tag |-> tag, name |-> name, text |-> text, kids |-> kids]

Whitespace == {" ", NL}

\* str.strip()
RECURSIVE Strip(_)
Strip(s) ==
    IF s = <<>> THEN s
    ELSE IF Head(s) \in Whitespace THEN Strip(Tail(s))
    ELSE IF s[Len(s)] \in Whitespace THEN Strip(SubSeq(s, 1, Len(s) - 1))
    ELSE s

\* element.tag.split("}")[-1] if "}" in element.tag else element.tag
LocalName(tag) == tag.local

\* element.findall("t:<local>", ns): the children with exactly that
\* qualified tag, in document order
FindAll(nodes, id, local) ==
    LET hit(k) == nodes[k].tag = T(local)
    IN  SelectSeq(nodes[id].kids, hit)

\* the children of each element of ids, in order, as one sequence
KidsOfAll(nodes, ids) == Flatten([i \in DOMAIN ids |-> nodes[ids[i]].kids])

\* A plausible slip: a dot is written whenever there is a name.
CurrentPathDotted(path, name) == IF name # <<>> THEN path \o <<".">> \o name ELSE path

\* f"{path}.{name}" if path and name else (name or path)
CurrentPath(path, name) ==
    IF path # <<>> /\ name # <<>> THEN path \o <<".">> \o name
    ELSE IF name # <<>> THEN name ELSE path

\* the if / elif chain over child_tag; "" when no branch is taken
WidgetType(local) ==
    CASE local = "checkButton" -> "checkbox"
      [] local = "choiceList" -> "dropdown"
      [] local = "dateTimeEdit" -> "date"
      [] local = "numericEdit" -> "numeric"
      [] local = "textEdit" -> "text"
      [] local = "imageEdit" -> "image"
      [] local = "signatureEdit" -> "signature"
      [] local = "barcode" -> "barcode"
      [] OTHER -> ""

\* A plausible slip: the loops stop at the first widget they recognise.
RECURSIVE FirstTypeFrom(_, _, _)
FirstTypeFrom(nodes, widgets, i) ==
    IF i > Len(widgets) THEN "text"
    ELSE IF WidgetType(LocalName(nodes[widgets[i]].tag)) # ""
         THEN WidgetType(LocalName(nodes[widgets[i]].tag))
         ELSE FirstTypeFrom(nodes, widgets, i + 1)

FieldTypeFirst(nodes, id) == FirstTypeFrom(nodes, KidsOfAll(nodes, FindAll(nodes, id, "ui")), 1)

\* the assignments to field_type, one widget after the other
RECURSIVE TypeFrom(_, _, _, _)
TypeFrom(nodes, widgets, i, field_type) ==
    IF i > Len(widgets) THEN field_type
    ELSE LET t == WidgetType(LocalName(nodes[widgets[i]].tag))
         IN  TypeFrom(nodes, widgets, i + 1, IF t # "" THEN t ELSE field_type)

\* field_type = "text"; for ui in element.findall("t:ui", ns): for child in ui: ...
FieldType(nodes, id) == TypeFrom(nodes, KidsOfAll(nodes, FindAll(nodes, id, "ui")), 1, "text")

\* A plausible slip: the loop stops at the first text it takes.
RECURSIVE FirstText(_, _, _, _)
FirstText(nodes, es, i, x) ==
    IF i > Len(es) THEN x
    ELSE IF nodes[es[i]].text # <<>> THEN Strip(nodes[es[i]].text)
    ELSE FirstText(nodes, es, i + 1, x)

\* the value a loop "for e in es: if e.text: x = e.text.strip()" leaves in x
RECURSIVE LastText(_, _, _, _)
LastText(nodes, es, i, x) ==
    IF i > Len(es) THEN x
    ELSE LastText(nodes, es, i + 1,
                  IF nodes[es[i]].text # <<>> THEN Strip(nodes[es[i]].text) ELSE x)

\* all e2 in e1.findall("t:<local>", ns) for e1 in ids, in loop order
FindAllOfAll(nodes, ids, local) == Flatten([i \in DOMAIN ids |-> FindAll(nodes, ids[i], local)])

\* caption = ""; for cap in findall caption: for val in findall value:
\*   for text in findall text: if text.text: caption = text.text.strip()
Caption(nodes, id) ==
    LastText(nodes,
             FindAllOfAll(nodes, FindAllOfAll(nodes, FindAll(nodes, id, "caption"), "value"), "text"),
             1, <<>>)

\* tooltip = ""; for assist in findall assist: for tip in findall toolTip: ...
Tooltip(nodes, id) ==
    LastText(nodes, FindAllOfAll(nodes, FindAll(nodes, id, "assist"), "toolTip"), 1, <<>>)

\* A plausible slip: the text is appended as it stands.
RECURSIVE ItemTextsRaw(_, _, _)
ItemTextsRaw(nodes, items, i) ==
    IF i > Len(items) THEN <<>>
    ELSE (IF nodes[items[i]].text # <<>> THEN <<nodes[items[i]].text>> ELSE <<>>)
         \o ItemTextsRaw(nodes, items, i + 1)

\* for item in items: if item.text: options.append(item.text.strip())
RECURSIVE ItemTexts(_, _, _)
ItemTexts(nodes, items, i) ==
    IF i > Len(items) THEN <<>>
    ELSE (IF nodes[items[i]].text # <<>> THEN <<Strip(nodes[items[i]].text)>> ELSE <<>>)
         \o ItemTexts(nodes, items, i + 1)

\* for items in element.findall("t:items", ns): for item in items: ...
ItemOptions(nodes, id) == ItemTexts(nodes, KidsOfAll(nodes, FindAll(nodes, id, "items")), 1)

\* x if x else None
OptNone == [none |-> TRUE, list |-> <<>>]
OrNone(list) == IF list # <<>> THEN [none |-> FALSE, list |-> list] ELSE OptNone

Descriptor(name, xfa_name, type, caption, tooltip, options) ==
    [name |-> name, xfa_name |-> xfa_name, type |-> type, caption |-> caption,
     tooltip |-> tooltip, options |-> options]

\* the branch  if tag == "field"
FieldDescriptor(nodes, id, current_path) ==
    Descriptor(current_path, nodes[id].name, FieldType(nodes, id), Caption(nodes, id),
               Tooltip(nodes, id), OrNone(ItemOptions(nodes, id)))

\* for child_field in element.findall("t:field", ns): the items, then the name
RECURSIVE RadioOptions(_, _, _)
RadioOptions(nodes, child_fields, i) ==
    IF i > Len(child_fields) THEN <<>>
    ELSE ItemOptions(nodes, child_fields[i])
         \o (IF nodes[child_fields[i]].name # <<>> THEN <<nodes[child_fields[i]].name>> ELSE <<>>)
         \o RadioOptions(nodes, child_fields, i + 1)

\* the branch  elif tag == "exclGroup"
GroupDescriptor(nodes, id, current_path) ==
    Descriptor(current_path, nodes[id].name, "radio", <<>>, <<>>,
               OrNone(RadioOptions(nodes, FindAll(nodes, id, "field"), 1)))

\* A plausible slip: the recursion sits in the else branch of the dispatch.
ChildrenToWalkElse(nodes, id) ==
    IF LocalName(nodes[id].tag) \in {"field", "exclGroup"} THEN <<>> ELSE nodes[id].kids

\* for child in element: walk(child, current_path)
ChildrenToWalk(nodes, id) == nodes[id].kids

\* walk(element, path): what it appends to fields, in order
RECURSIVE Walk(_, _, _)
RECURSIVE WalkAll(_, _, _, _)
Walk(nodes, id, path) ==
    LET tag == LocalName(nodes[id].tag)
        current_path == CurrentPath(path, nodes[id].name)
    IN  (IF tag = "field" THEN <<FieldDescriptor(nodes, id, current_path)>>
         ELSE IF tag = "exclGroup" THEN <<GroupDescriptor(nodes, id, current_path)>>
         ELSE <<>>)
        \o WalkAll(nodes, ChildrenToWalk(nodes, id), 1, current_path)
WalkAll(nodes, kids, i, path) ==
    IF i > Len(kids) THEN <<>>
    ELSE Walk(nodes, kids[i], path) \o WalkAll(nodes, kids, i + 1, path)

\* fields = []; walk(root); return fields
ExtractFields(nodes) == Walk(nodes, 1, <<>>)

-----------------------------------------------------------------------------
(* Vocabulary of the properties of fill_xfa_pdf *)

\* the update has a value: neither absent nor the empty string
HasValue(v) == v # None /\ v # StrVal("")

\* every segment of the dotted path is a letter followed by letters,
\* digits and underscores
ValidPath(path) == \A i \in DOMAIN Split(path) : StrictSafePart(Split(path)[i])

\* descending from node cur, taking at each step the first child with that
\* exact name; 0 when a step has no such child
RECURSIVE Resolve(_, _, _, _)
Resolve(nodes, cur, parts, i) ==
    IF i > Len(parts) THEN cur
    ELSE LET hits == {k \in DOMAIN nodes[cur].kids :
                        nodes[nodes[cur].kids[k]].tag = Plain(parts[i])}
         IN  IF hits = {} THEN 0
             ELSE Resolve(nodes, nodes[cur].kids[CHOOSE k \in hits : \A h \in hits : k <= h],
                          parts, i + 1)

NodeOf(nodes, data, path) == Resolve(nodes, data, Split(path), 1)

\* the datasets tree as it was parsed from the template
Original == FromString(template.xfa[datasets_idx])

InLoop == pc = "loop" /\ idx < Len(field_data)

\* the structure a fill cannot do without and the template lacks ("" if none)
Missing ==
    IF ~template.acroForm THEN "No AcroForm in PDF"
    ELSE IF ~template.hasXfa THEN "No XFA in AcroForm"
    ELSE IF ~\E i \in DOMAIN template.xfa : i % 2 = 1 /\ template.xfa[i] = "datasets"
         THEN "No datasets in XFA"
    ELSE LET first == CHOOSE i \in DOMAIN template.xfa :
                         /\ i % 2 = 1 /\ template.xfa[i] = "datasets"
                         /\ \A j \in 1..(i - 1) : ~(j % 2 = 1 /\ template.xfa[j] = "datasets")
             root == FromString(template.xfa[first + 1])
         IN  IF \E k \in DOMAIN root[1].kids :
                    root[root[1].kids[k]].tag = Tag(XFA_DATA_NS, DATA)
             THEN ""
             ELSE "No data node in datasets"

-----------------------------------------------------------------------------
(* C1: an update with a value whose path has a segment that is not a letter *)
(* followed by letters, digits and underscores is rejected: the error      *)
(* "<path>: invalid field path characters" is appended, filled is not      *)
(* incremented and the datasets tree is the same before and after.         *)
C1_InvalidPathRejected ==
    [][ (InLoop /\ HasValue(Current.value) /\ ~ValidPath(Current.path))
        => /\ errors' = Append(errors, Current.path \o <<": invalid field path characters">>)
           /\ filled' = filled
           /\ datasets_root' = datasets_root ]_vars

-----------------------------------------------------------------------------
(* C2: once a whole map is processed, every entry with a value and a valid *)
(* path has its value's string form as the text of the node reached by     *)
(* first-child descent from the data node, whatever precedes or follows    *)
(* it; the nodes its step created are the last children of their parents;  *)
(* and filled is exactly the number of such entries.                       *)
C2_Good(i) == HasValue(field_data[i].value) /\ ValidPath(field_data[i].path)

C2_Final ==
    (pc = "returned" /\ output # <<>>) =>
        /\ \A i \in DOMAIN field_data :
              C2_Good(i) =>
                 /\ NodeOf(datasets_root, data_node, field_data[i].path) # 0
                 /\ datasets_root[NodeOf(datasets_root, data_node, field_data[i].path)].text
                       = PyStr(field_data[i].value)
        /\ result.filled = Cardinality({i \in DOMAIN field_data : C2_Good(i)})
        /\ result.total = Len(field_data)

\* C2: each step on such an entry counts it and appends what it creates,
\* and the call ends with every such entry's value in place and counted
C2_ValidEntriesFilled ==
    [][ /\ (InLoop /\ HasValue(Current.value) /\ ValidPath(Current.path))
            => /\ filled' = filled + 1
               /\ \A id \in (DOMAIN datasets_root') \ (DOMAIN datasets_root) :
                     \E par \in DOMAIN datasets_root' :
                        /\ datasets_root'[par].kids # <<>>
                        /\ datasets_root'[par].kids[Len(datasets_root'[par].kids)] = id
        /\ C2_Final' ]_vars

-----------------------------------------------------------------------------
(* C3: an update whose value is the empty string or absent changes nothing: *)
(* the tree, filled and errors are as before (whether or not its path is    *)
(* valid or exists), and it still counts in total.                          *)
C3_EmptyValueNoOp ==
    [][ /\ (InLoop /\ ~HasValue(Current.value))
            => /\ datasets_root' = datasets_root
               /\ filled' = filled
               /\ errors' = errors
               /\ idx' = idx + 1
        /\ (pc' = "returned" => result'.total = Len(field_data)) ]_vars

\* an empty string was given for the filled node a.b and for an invalid
\* path; the call is over and a.b still reads "old"
C3_Witness ==
    /\ pc = "returned"
    /\ output # <<>>
    /\ \E i \in DOMAIN field_data :
          /\ field_data[i] = Entry(<<"a", ".", "b">>, StrVal(""))
    /\ \E i \in DOMAIN field_data :
          /\ ~HasValue(field_data[i].value)
          /\ ~ValidPath(field_data[i].path)
    /\ NodeOf(datasets_root, data_node, <<"a", ".", "b">>) # 0
    /\ datasets_root[NodeOf(datasets_root, data_node, <<"a", ".", "b">>)].text = "old"
    /\ result = [filled |-> 0, total |-> 2, errors |-> <<>>]

-----------------------------------------------------------------------------
(* C4: the datasets tree only grows by appending.  Every original node is   *)
(* still there with its name, under the same parent; the original children  *)
(* of a node are a prefix of its children, in their order; every node has   *)
(* exactly one parent; and an original node's text differs only if the node *)
(* is the end of the path of a processed update with a value and a valid    *)
(* path.                                                                    *)
C4_AppendOnly ==
    (pc \in {"loop", "returned"} /\ datasets_root # <<>>) =>
        LET orig == Original
            now == datasets_root
            parents(id) == {par \in DOMAIN now : \E k \in DOMAIN now[par].kids :
                                                    now[par].kids[k] = id}
        IN  /\ Len(now) >= Len(orig)
            /\ \A id \in DOMAIN orig :
                  /\ now[id].tag = orig[id].tag
                  /\ Len(now[id].kids) >= Len(orig[id].kids)
                  /\ SubSeq(now[id].kids, 1, Len(orig[id].kids)) = orig[id].kids
                  /\ \A k \in DOMAIN now[id].kids :
                        k > Len(orig[id].kids) => now[id].kids[k] > Len(orig)
                  /\ now[id].text # orig[id].text
                        => \E i \in 1..idx :
                              /\ HasValue(field_data[i].value)
                              /\ ValidPath(field_data[i].path)
                              /\ NodeOf(orig, data_node, field_data[i].path) = id
            /\ parents(1) = {}
            /\ \A id \in (DOMAIN now) \ {1} : Cardinality(parents(id)) = 1
            /\ \A par \in DOMAIN now : \A j, k \in DOMAIN now[par].kids :
                  j # k => now[par].kids[j] # now[par].kids[k]

\* a node was appended beside an original one and an original text was rewritten
C4_Witness ==
    /\ pc = "returned"
    /\ datasets_root # <<>>
    /\ \E id \in DOMAIN Original :
          /\ Original[id].kids # <<>>
          /\ Len(datasets_root[id].kids) > Len(Original[id].kids)
    /\ \E id \in DOMAIN Original : datasets_root[id].text # Original[id].text

-----------------------------------------------------------------------------
(* C7: when the container lacks the AcroForm, the XFA entry, a stream named *)
(* "datasets" or the data node, the call returns filled = 0, total =        *)
(* len(updates) and the one message naming what is missing; no update is    *)
(* processed, the stream is not replaced, NeedAppearances is not set and    *)
(* nothing is saved (the service returns empty bytes).                      *)
C7_StructuralFailure ==
    (pc = "returned" /\ Missing # "") =>
        /\ result = [filled |-> 0, total |-> Len(field_data), errors |-> <<<<Missing>>>>]
        /\ output = <<>>
        /\ pdf = template
        /\ idx = 0 /\ filled = 0 /\ errors = <<>>

\* a datasets stream without a data node, and a map of two entries
C7_Witness ==
    /\ pc = "returned"
    /\ Missing = "No data node in datasets"
    /\ Len(field_data) = 2
    /\ HasValue(field_data[1].value) /\ ValidPath(field_data[1].path)
    /\ result.total = 2

-----------------------------------------------------------------------------
(* C9: filling the same template with the same map again, in the same       *)
(* process, gives the same serialized datasets stream and the same stats    *)
(* (filled, total, errors) as the earlier fills did.                        *)
StreamOf(out) == IF out = <<>> THEN <<>> ELSE out[1].xfa[datasets_idx]

C9_Idempotent ==
    pc = "returned" =>
        \A k \in DOMAIN calls :
            /\ result = calls[k].result
            /\ StreamOf(output) = StreamOf(calls[k].output)

\* the second fill is over; it filled a field and rejected another
C9_Witness ==
    /\ pc = "returned"
    /\ Len(calls) >= 1
    /\ output # <<>>
    /\ result.filled >= 1
    /\ result.errors # <<>>
    /\ Len(datasets_root) > Len(Original)

-----------------------------------------------------------------------------
(* extract_fields: templates and the run *)

Label(tag, name, text) == [tag |-> tag, name |-> name, text |-> text]

\* the elements still open while the document is read: the root, its last
\* child, that one's last child, ...
RECURSIVE OpenElements(_, _)
OpenElements(nodes, id) ==
    {id} \cup (IF nodes[id].kids = <<>> THEN {}
               ELSE OpenElements(nodes, nodes[id].kids[Len(nodes[id].kids)]))

\* ET.fromstring(template_xml) reads one more start tag: the element l
\* becomes the last child of par, an element that is still open
ReadElement(par, l) ==
    /\ ~extracted
    /\ par \in OpenElements(tmpl, 1)
    /\ tmpl' = [Append(tmpl, Elem(l.tag, l.name, l.text, <<>>))
                   EXCEPT ![par].kids = Append(@, Len(tmpl) + 1)]
    /\ UNCHANGED <<fields, extracted>>
    /\ UNCHANGED fillVars

\* fields = extract_fields(template_xml)
Extract ==
    /\ ~extracted
    /\ fields' = ExtractFields(tmpl)
    /\ extracted' = TRUE
    /\ UNCHANGED tmpl
    /\ UNCHANGED fillVars

InitFillIdle ==
    /\ template = Pdf(FALSE, FALSE, <<>>, "absent")
    /\ field_data = <<>>
    /\ service = FALSE
    /\ flatten = FALSE
    /\ pc = "idle"
    /\ pdf = template
    /\ datasets_idx = 0
    /\ datasets_root = <<>>
    /\ data_node = 0
    /\ idx = 0
    /\ filled = 0
    /\ errors = <<>>
    /\ result = None
    /\ output = <<>>
    /\ namespace_map = <<>>
    /\ calls = <<>>

InitExtract(roots) ==
    /\ InitFillIdle
    /\ tmpl \in {<<Elem(l.tag, l.name, l.text, <<>>)>> : l \in roots}
    /\ fields = <<>>
    /\ extracted = FALSE

\* Templates of subforms, fields and groups, named or not, nested at will;
\* one field is of an older version of the schema.
WalkLabels ==
    { Label(T("subform"), <<>>, <<>>),
      Label(T("subform"), <<"form1">>, <<>>),
      Label(T("field"), <<>>, <<>>),
      Label(T("field"), <<"FirstName">>, <<>>),
      Label(Tag(OLD_NS, "field"), <<"FirstName">>, <<>>),
      Label(T("exclGroup"), <<"Sex">>, <<>>) }

WalkKids(e) == WalkLabels

ReadWalk ==
    /\ Len(tmpl) < MaxWalkNodes
    /\ \E par \in DOMAIN tmpl : \E l \in WalkKids(tmpl[par]) : ReadElement(par, l)

InitWalk == InitExtract(WalkLabels)
NextWalk == ReadWalk \/ Extract
SpecWalk == InitWalk /\ [][NextWalk]_vars

\* A radio group: fields, named or not, with items whose children carry
\* text (bare, padded, blank or none), and a field inside a field.
RadioFields ==
    { Label(T("field"), <<"Male">>, <<>>),
      Label(T("field"), <<"Female">>, <<>>),
      Label(T("field"), <<>>, <<>>) }

RadioItems ==
    { Label(T("text"), <<>>, <<"M">>),
      Label(T("text"), <<>>, <<" ", "F", NL>>),
      Label(T("text"), <<>>, <<" ">>),
      Label(T("text"), <<>>, <<>>) }

RadioKids(e) ==
    CASE LocalName(e.tag) = "exclGroup" -> RadioFields
      [] LocalName(e.tag) = "field" /\ e.name # <<"Inner">> ->
            {Label(T("items"), <<>>, <<>>), Label(T("field"), <<"Inner">>, <<>>)}
      [] LocalName(e.tag) = "items" -> RadioItems
      [] OTHER -> {}

ReadRadio ==
    /\ Len(tmpl) < MaxRadioNodes
    /\ \E par \in DOMAIN tmpl : \E l \in RadioKids(tmpl[par]) : ReadElement(par, l)

InitRadio == InitExtract({Label(T("exclGroup"), <<"Sex">>, <<>>)})
NextRadio == ReadRadio \/ Extract
SpecRadio == InitRadio /\ [][NextRadio]_vars

\* A field with ui children (one of an older schema version) holding
\* widgets, and a widget outside any ui.
Widgets ==
    { Label(T(w), <<>>, <<>>) :
        w \in {"checkButton", "choiceList", "dateTimeEdit", "numericEdit", "textEdit",
               "imageEdit", "signatureEdit", "barcode", "button"} }

WidgetKids(e) ==
    CASE LocalName(e.tag) = "field" ->
            {Label(T("ui"), <<>>, <<>>), Label(Tag(OLD_NS, "ui"), <<>>, <<>>),
             Label(T("checkButton"), <<>>, <<>>)}
      [] LocalName(e.tag) = "ui" -> Widgets
      [] OTHER -> {}

ReadWidget ==
    /\ Len(tmpl) < MaxWidgetNodes
    /\ \E par \in DOMAIN tmpl : \E l \in WidgetKids(tmpl[par]) : ReadElement(par, l)

InitWidget == InitExtract({Label(T("field"), <<"f">>, <<>>)})
NextWidget == ReadWidget \/ Extract
SpecWidget == InitWidget /\ [][NextWidget]_vars

\* A field with captions (value children holding text elements, and a
\* text element outside any value) and assist children holding toolTips;
\* the texts are bare, padded, blank or absent.
CaptionTexts ==
    { Label(T("text"), <<>>, <<"A">>),
      Label(T("text"), <<>>, <<" ", "B", NL>>),
      Label(T("text"), <<>>, <<" ">>),
      Label(T("text"), <<>>, <<>>) }

TipTexts ==
    { Label(T("toolTip"), <<>>, <<"A">>),
      Label(T("toolTip"), <<>>, <<" ", "B", NL>>),
      Label(T("toolTip"), <<>>, <<" ">>),
      Label(T("toolTip"), <<>>, <<>>) }

CaptionKids(e) ==
    CASE LocalName(e.tag) = "field" ->
            {Label(T("caption"), <<>>, <<>>), Label(T("assist"), <<>>, <<>>)}
      [] LocalName(e.tag) = "caption" ->
            {Label(T("value"), <<>>, <<>>), Label(T("text"), <<>>, <<"A">>)}
      [] LocalName(e.tag) = "value" -> CaptionTexts
      [] LocalName(e.tag) = "assist" -> TipTexts
      [] OTHER -> {}

ReadCaption ==
    /\ Len(tmpl) < MaxCaptionNodes
    /\ \E par \in DOMAIN tmpl : \E l \in CaptionKids(tmpl[par]) : ReadElement(par, l)

InitCaption == InitExtract({Label(T("field"), <<"f">>, <<>>)})
NextCaption == ReadCaption \/ Extract
SpecCaption == InitCaption /\ [][NextCaption]_vars

-----------------------------------------------------------------------------
(* Vocabulary of the properties of extract_fields *)

\* the elements of the template in document order (pre-order)
RECURSIVE DocOrder(_, _)
RECURSIVE DocOrderAll(_, _, _)
DocOrder(nodes, id) == <<id>> \o DocOrderAll(nodes, nodes[id].kids, 1)
DocOrderAll(nodes, kids, i) ==
    IF i > Len(kids) THEN <<>>
    ELSE DocOrder(nodes, kids[i]) \o DocOrderAll(nodes, kids, i + 1)

IsField(e) == e.tag.local = "field"
IsGroup(e) == e.tag.local = "exclGroup"

\* the field and exclGroup elements, in document order
Targets ==
    LET wanted(id) == IsField(tmpl[id]) \/ IsGroup(tmpl[id])
    IN  SelectSeq(DocOrder(tmpl, 1), wanted)

ParentOf(id) == CHOOSE par \in DOMAIN tmpl : \E k \in DOMAIN tmpl[par].kids : tmpl[par].kids[k] = id

\* the elements from the root down to id
RECURSIVE Lineage(_)
Lineage(id) == IF id = 1 THEN <<1>> ELSE Append(Lineage(ParentOf(id)), id)

\* names joined by dots
RECURSIVE DotJoin(_)
DotJoin(names) ==
    IF names = <<>> THEN <<>>
    ELSE IF Len(names) = 1 THEN names[1]
    ELSE names[1] \o <<".">> \o DotJoin(Tail(names))

\* the non-empty name attributes from the root down to id, dot-joined
NamePath(id) ==
    LET named(a) == tmpl[a].name # <<>>
        line == SelectSeq(Lineage(id), named)
    IN  DotJoin([i \in DOMAIN line |-> tmpl[line[i]].name])

\* the children of id that are <tag> elements of the template schema
ChildrenNamed(id, local) ==
    LET hit(k) == tmpl[k].tag = Tag(T_NS, local)
    IN  SelectSeq(tmpl[id].kids, hit)

-----------------------------------------------------------------------------
(* C5: extract_fields returns one descriptor for each element whose         *)
(* namespace-stripped tag is field or exclGroup, wherever it is nested, none *)
(* for any other element, in document pre-order.                             *)
C5_OnePerFieldInOrder ==
    extracted =>
        /\ Len(fields) = Len(Targets)
        /\ \A k \in DOMAIN fields :
              /\ fields[k].xfa_name = tmpl[Targets[k]].name
              /\ (fields[k].type = "radio") <=> IsGroup(tmpl[Targets[k]])

\* four elements: a field of the older schema inside a field inside a group
C5_Witness ==
    /\ extracted
    /\ Len(tmpl) = 4
    /\ ~IsField(tmpl[1]) /\ ~IsGroup(tmpl[1])
    /\ IsGroup(tmpl[2]) /\ tmpl[2].kids = <<3>>
    /\ IsField(tmpl[3]) /\ tmpl[3].kids = <<4>> /\ tmpl[3].name = <<>>
    /\ IsField(tmpl[4]) /\ tmpl[4].tag.ns = OLD_NS
    /\ Len(fields) = 3

-----------------------------------------------------------------------------
(* C6: the path of a descriptor is the dot-joined sequence of the non-empty  *)
(* name attributes of its element and its ancestors, from the root down: an  *)
(* unnamed element adds neither a segment nor a dot.                         *)
C6_DottedNamePath ==
    extracted =>
        /\ Len(fields) = Len(Targets)
        /\ \A k \in DOMAIN fields : fields[k].name = NamePath(Targets[k])

\* field FirstName in an unnamed subform in subform form1: "form1.FirstName"
C6_Witness ==
    /\ extracted
    /\ Len(tmpl) = 4
    /\ tmpl[1].name = <<>> /\ tmpl[1].kids = <<2>>
    /\ tmpl[2].name = <<"form1">> /\ tmpl[2].kids = <<3>> /\ ~IsField(tmpl[2]) /\ ~IsGroup(tmpl[2])
    /\ tmpl[3].name = <<>> /\ tmpl[3].kids = <<4>> /\ ~IsField(tmpl[3]) /\ ~IsGroup(tmpl[3])
    /\ IsField(tmpl[4]) /\ tmpl[4].name = <<"FirstName">>
    /\ fields[1].name = <<"form1", ".", "FirstName">>

-----------------------------------------------------------------------------
(* C8: the options of an exclGroup's descriptor.  For each immediate field   *)
(* child in document order: the texts of the children of its items children  *)
(* that have a non-empty text, then the child's name if it is non-empty.     *)
(* None when that list is empty.                                             *)

\* the children of the items children of field f that have a text
ItemsOf(f) ==
    LET texted(k) == tmpl[k].text # <<>>
        its == ChildrenNamed(f, "items")
    IN  SelectSeq(Flatten([i \in DOMAIN its |-> tmpl[its[i]].kids]), texted)

OwnName(f) == IF tmpl[f].name # <<>> THEN <<tmpl[f].name>> ELSE <<>>

\* as the claim has it: the item texts themselves
OptionsAsTexts(g) ==
    LET fs == ChildrenNamed(g, "field")
    IN  Flatten([i \in DOMAIN fs |->
                    [j \in DOMAIN ItemsOf(fs[i]) |-> tmpl[ItemsOf(fs[i])[j]].text]
                    \o OwnName(fs[i])])

\* as the code has it: the item texts without their surrounding white space
OptionsAsTrimmedTexts(g) ==
    LET fs == ChildrenNamed(g, "field")
    IN  Flatten([i \in DOMAIN fs |->
                    [j \in DOMAIN ItemsOf(fs[i]) |-> Strip(tmpl[ItemsOf(fs[i])[j]].text)]
                    \o OwnName(fs[i])])

\* the descriptor of every group is a radio with the options expected[g]
RadioAgrees(expected) ==
    extracted =>
        /\ Len(fields) = Len(Targets)
        /\ \A k \in DOMAIN fields :
              IsGroup(tmpl[Targets[k]]) =>
                 /\ fields[k].type = "radio"
                 /\ fields[k].options.none = (expected[Targets[k]] = <<>>)
                 /\ fields[k].options.list = expected[Targets[k]]

\* C8 as claimed: every non-empty item text is appended
C8_OptionsAreItemTexts == RadioAgrees([g \in DOMAIN tmpl |-> OptionsAsTexts(g)])

\* C8 as amended: every non-empty item text is appended with its leading
\* and trailing white space removed (a blank text gives an empty option)
C8_OptionsAreTrimmedItemTexts == RadioAgrees([g \in DOMAIN tmpl |-> OptionsAsTrimmedTexts(g)])

\* group Sex with Male (item "M") and Female (item " F\n"):
\* options M, Male, F, Female
C8_Witness ==
    /\ extracted
    /\ Len(tmpl) = 7
    /\ tmpl[1].kids = <<2, 5>>
    /\ tmpl[2].name = <<"Male">> /\ tmpl[2].kids = <<3>> /\ tmpl[3].kids = <<4>>
    /\ tmpl[4].text = <<"M">>
    /\ tmpl[5].name = <<"Female">> /\ tmpl[5].kids = <<6>> /\ tmpl[6].kids = <<7>>
    /\ tmpl[7].text = <<" ", "F", NL>>
    /\ fields[1].options = [none |-> FALSE, list |-> <<<<"M">>, <<"Male">>, <<"F">>, <<"Female">>>>]

-----------------------------------------------------------------------------
(* C10: the kind of a field's descriptor, from the widgets that are the      *)
(* children of its ui children, in document order; text when none of them    *)
(* is recognised.                                                            *)
KindOf ==
    [checkButton |-> "checkbox", choiceList |-> "dropdown", dateTimeEdit |-> "date",
     numericEdit |-> "numeric", textEdit |-> "text", imageEdit |-> "image",
     signatureEdit |-> "signature", barcode |-> "barcode"]

\* the recognised widgets under the ui children of field f, in document order
RecognisedWidgets(f) ==
    LET uis == ChildrenNamed(f, "ui")
        known(k) == tmpl[k].tag.local \in DOMAIN KindOf
    IN  SelectSeq(Flatten([i \in DOMAIN uis |-> tmpl[uis[i]].kids]), known)

\* the kind of every field is that of the first (or else the last) of
\* its recognised widgets
KindAgrees(first) ==
    extracted =>
        /\ Len(fields) = Len(Targets)
        /\ \A k \in DOMAIN fields :
              IsField(tmpl[Targets[k]]) =>
                 LET ws == RecognisedWidgets(Targets[k])
                 IN  fields[k].type = IF ws = <<>> THEN "text"
                                      ELSE KindOf[tmpl[ws[IF first THEN 1 ELSE Len(ws)]].tag.local]

\* C10 as claimed: the first recognised widget decides
C10_FirstWidgetDecides == KindAgrees(TRUE)

\* C10 as amended: the last recognised widget decides
C10_LastWidgetDecides == KindAgrees(FALSE)

\* a checkButton, then an unrecognised widget, then in a later ui a
\* choiceList: dropdown
C10_Witness ==
    /\ extracted
    /\ Len(tmpl) = 5
    /\ tmpl[1].kids = <<2, 4>>
    /\ tmpl[2].tag = Tag(T_NS, "ui") /\ tmpl[2].kids = <<3>>
    /\ tmpl[3].tag.local = "checkButton"
    /\ tmpl[4].tag = Tag(T_NS, "ui") /\ tmpl[4].kids = <<5>>
    /\ tmpl[5].tag.local = "choiceList"
    /\ fields[1].type = "dropdown"

-----------------------------------------------------------------------------
(* C11: the caption and the tooltip of a field's descriptor.  The caption    *)
(* comes from the text elements under the value children of the field's      *)
(* caption children, the tooltip from the toolTip children of its assist     *)
(* children, each taken in document order among those whose text is not      *)
(* empty, with the surrounding white space removed; "" when there is none.   *)

\* the children named local of each element of ids, in document order
Under(ids, local) == Flatten([i \in DOMAIN ids |-> ChildrenNamed(ids[i], local)])

\* those of ids that have a text
Texted(ids) ==
    LET texted(k) == tmpl[k].text # <<>>
    IN  SelectSeq(ids, texted)

\* the caption / value / text descendants of field f that have a text
CaptionSources(f) == Texted(Under(Under(ChildrenNamed(f, "caption"), "value"), "text"))

\* the assist / toolTip descendants of field f that have a text
TooltipSources(f) == Texted(Under(ChildrenNamed(f, "assist"), "toolTip"))

\* the trimmed text of the first (or else the last) of ids; "" when none
Chosen(ids, first) ==
    IF ids = <<>> THEN <<>> ELSE Strip(tmpl[ids[IF first THEN 1 ELSE Len(ids)]].text)

\* the caption and the tooltip of every field are the chosen texts
TextsAgree(first) ==
    extracted =>
        /\ Len(fields) = Len(Targets)
        /\ \A k \in DOMAIN fields :
              IsField(tmpl[Targets[k]]) =>
                 /\ fields[k].caption = Chosen(CaptionSources(Targets[k]), first)
                 /\ fields[k].tooltip = Chosen(TooltipSources(Targets[k]), first)

\* C11 as claimed: the first non-empty caption text and the first non-empty
\* toolTip text decide, and later ones do not replace them
C11_FirstTextDecides == TextsAgree(TRUE)

\* C11 as amended: the last non-empty caption text and the last non-empty
\* toolTip text decide, each later one replacing the earlier
C11_LastTextDecides == TextsAgree(FALSE)

\* a caption whose value holds texts "A" then " B\n", and an assist whose
\* toolTip is "A": caption B, tooltip A
C11_Witness ==
    /\ extracted
    /\ Len(tmpl) = 7
    /\ tmpl[1].kids = <<2, 6>>
    /\ tmpl[2].tag = Tag(T_NS, "caption") /\ tmpl[2].kids = <<3>>
    /\ tmpl[3].tag = Tag(T_NS, "value") /\ tmpl[3].kids = <<4, 5>>
    /\ tmpl[4].text = <<"A">>
    /\ tmpl[5].text = <<" ", "B", NL>>
    /\ tmpl[6].tag = Tag(T_NS, "assist") /\ tmpl[6].kids = <<7>>
    /\ tmpl[7].text = <<"A">>
    /\ fields[1].caption = <<"B">>
    /\ fields[1].tooltip = <<"A">>

====
